---- MODULE Spec2Model ----
(***************************************************************************)
(* Model of src/proto/text.rs: the memcached text-protocol adapter         *)
(* TextProto<T>.  The adapter owns one buffered bidirectional stream and   *)
(* exposes the methods of Operation, ServerOperation, MultiOperation,      *)
(* NoReplyOperation, CasOperation and AuthOperation.  In the source every  *)
(* method body is a single panic!(..) and no method reads, writes or       *)
(* flushes self.stream.                                                    *)
(*                                                                         *)
(* State:                                                                  *)
(*   stream  the observable state of the owned stream: the commands        *)
(*           written to it, the number of flushes, the read position, the  *)
(*           reply lines the server has put on it, and whether the peer    *)
(*           has closed it;                                                *)
(*   last    the most recent method call: its name, its arguments, the     *)
(*           stream as it was when the call began, and how the call ended. *)
(***************************************************************************)
EXTENDS Integers, Sequences, FiniteSets, TLC

VARIABLES stream, last

vars == <<stream, last>>

(***************************************************************************)
(* Bounds and argument domains.                                            *)
(***************************************************************************)
MaxKeys == 2

\* key: &[u8], any byte string: two well-formed keys and the empty one.
Keys == {"a", "b", ""}

\* The keys of the multi-key inputs.
MultiKeyDomain == {"a", "b"}

Values == {"x", "yy"}

Flags == {0, 7}

Expirations == {0}

Amounts == {1}

Initials == {5}

CasTokens == {42}

Mechs == {"PLAIN"}

RECURSIVE SeqsUpTo(_, _)
SeqsUpTo(S, n) ==
    IF n = 0 THEN {<<>>}
    ELSE LET shorter == SeqsUpTo(S, n - 1)
         IN  shorter \cup {Append(s, x) : s \in shorter, x \in S}

KeyLists == SeqsUpTo(MultiKeyDomain, MaxKeys)

KeySets == {S \in SUBSET MultiKeyDomain : Cardinality(S) <= MaxKeys}

(***************************************************************************)
(* The server side of the stream.  A reply line is a token with one        *)
(* argument (the key of a VALUE entry, the message of an error line, the   *)
(* digits of a number); a VALUE entry carries its flags, its data block    *)
(* and (in a gets reply) its CAS token with it.  The server plays one of   *)
(* the reply scripts below, a line at a time.                              *)
(***************************************************************************)
Line(tok, arg) == [tok |-> tok, arg |-> arg, flags |-> 0, data |-> "", cas |-> 0]

STORED == Line("STORED", "")

NOT_STORED == Line("NOT_STORED", "")

EXISTS == Line("EXISTS", "")

NOT_FOUND == Line("NOT_FOUND", "")

END == Line("END", "")

ERROR == Line("ERROR", "")

SERVER_ERROR == Line("SERVER_ERROR", "out of memory")

CLIENT_ERROR == Line("CLIENT_ERROR", "bad data chunk")

VALUE(key) ==
    [tok |-> "VALUE", arg |-> key, flags |-> IF key = "a" THEN 0 ELSE 7,
     data |-> IF key = "a" THEN "A" ELSE "CC", cas |-> 42]

\* The VALUE entry a server holding (data, flags) under key sends.
ValueEntry(key, flags, data) ==
    [tok |-> "VALUE", arg |-> key, flags |-> flags, data |-> data, cas |-> 42]

NUMBER(digits) == Line("NUMBER", digits)

STAT(name) == Line("STAT", name)

Scripts ==
    { <<STORED, VALUE("a"), END>>,
      <<STORED, ValueEntry("a", 7, "yy"), END>>,
      <<END, STORED>>,
      <<VALUE("a"), VALUE("b"), END>>,
      <<VALUE("a"), END, EXISTS>>,
      <<VALUE("a"), END, STORED>>,
      <<VALUE("a"), VALUE("a"), END>>,
      <<VALUE("b"), END>>,
      <<EXISTS, END>>,
      <<NOT_FOUND, STORED>>,
      <<NOT_FOUND, NOT_STORED, NUMBER("6")>>,
      <<NOT_FOUND, NOT_STORED, NOT_FOUND>>,
      <<NOT_FOUND, END>>,
      <<NOT_STORED, END>>,
      <<NUMBER("6")>>,
      <<SERVER_ERROR, END>>,
      <<CLIENT_ERROR, END>>,
      <<ERROR, END>>,
      <<VALUE("a"), SERVER_ERROR>>,
      <<VALUE("a"), CLIENT_ERROR>>,
      <<VALUE("a"), ERROR>>,
      <<STAT("pid"), ERROR>>,
      <<STAT("pid"), STAT("uptime"), END>>,
      <<Line("VERSION", "1.6.21")>>,
      <<Line("DELETED", "")>>,
      <<Line("TOUCHED", "")>>,
      <<Line("OK", "")>>,
      <<Line("BOGUS", "")>> }

ReplyLines == UNION {{s[i] : i \in 1..Len(s)} : s \in Scripts}

\* kv: BTreeMap<&[u8], (&[u8], u32, u32)>, a map from keys to (value, flags, expiration).
SetMultiArgs == UNION {[S -> Values \X Flags \X Expirations] : S \in KeySets}

\* kv: HashMap<&[u8], (u64, u64, u32)>, a map from keys to (amount, initial, expiration).
IncrementMultiArgs == UNION {[S -> Amounts \X Initials \X Expirations] : S \in KeySets}

IsPrefix(s, t) ==
    /\ Len(s) <= Len(t)
    /\ \A i \in 1..Len(s) : s[i] = t[i]

(***************************************************************************)
(* The stream a collaborator hands to TextProto::new: nothing written,     *)
(* nothing flushed, nothing read.                                          *)
(***************************************************************************)
FreshStream ==
    [written |-> <<>>, flushes |-> 0, rpos |-> 0, inbound |-> <<>>, eof |-> FALSE]

NoCall ==
    [op |-> "new", args |-> [stream |-> "stream"], pre |-> FreshStream,
     kind |-> "constructed", result |-> [tag |-> "none"], msg |-> ""]

\* TextProto::new(stream): the adapter takes the stream and does nothing else.
Init ==
    /\ stream = FreshStream
    /\ last = NoCall

\* The server puts the next line of its script on the stream.
ServerReply(line) ==
    /\ ~stream.eof
    /\ \E s \in Scripts : IsPrefix(Append(stream.inbound, line), s)
    /\ stream' = [stream EXCEPT !.inbound = Append(@, line)]
    /\ UNCHANGED last

\* The peer closes the stream: reads past the lines already sent meet EOF.
PeerClose ==
    /\ ~stream.eof
    /\ stream' = [stream EXCEPT !.eof = TRUE]
    /\ UNCHANGED last

(***************************************************************************)
(* panic!(msg): the call unwinds to its caller carrying msg; no value is   *)
(* returned.  The record is what the caller observes of the call: the      *)
(* method, its arguments, the stream as the call found it, the way the     *)
(* call ended and the message.                                             *)
(***************************************************************************)
panic(op, args, pre, msg) ==
    [op |-> op, args |-> args, pre |-> pre, kind |-> "panic",
     result |-> [tag |-> "none"], msg |-> msg]

(***************************************************************************)
(* The methods.  Each is the whole body of the method in the source: a     *)
(* panic! with the method's own message.  The arguments are bound and      *)
(* unused, and self.stream is not touched.                                 *)
(***************************************************************************)
\* impl Operation for TextProto (text.rs 81-125)
set(key, value, flags, expiration) ==
    /\ last' = panic("set", [key |-> key, value |-> value, flags |-> flags, expiration |-> expiration], stream,
                     "Set command no supported for text protocol.")
    /\ UNCHANGED stream

add(key, value, flags, expiration) ==
    /\ last' = panic("add", [key |-> key, value |-> value, flags |-> flags, expiration |-> expiration], stream,
                     "Add command no supported for text protocol.")
    /\ UNCHANGED stream

delete(key) ==
    /\ last' = panic("delete", [key |-> key], stream,
                     "Delete command no supported for text protocol.")
    /\ UNCHANGED stream

replace(key, value, flags, expiration) ==
    /\ last' = panic("replace", [key |-> key, value |-> value, flags |-> flags, expiration |-> expiration], stream,
                     "Replace command no supported for text protocol.")
    /\ UNCHANGED stream

\* A get that reads a waiting reply line before it panics.
get_reads(key) ==
    /\ last' = panic("get", [key |-> key], stream,
                     "get command no supported for text protocol.")
    /\ stream' = [stream EXCEPT !.rpos = IF @ < Len(stream.inbound) THEN @ + 1 ELSE @]

get(key) ==
    /\ last' = panic("get", [key |-> key], stream,
                     "get command no supported for text protocol.")
    /\ UNCHANGED stream

getk(key) ==
    /\ last' = panic("getk", [key |-> key], stream,
                     "getk command no supported for text protocol.")
    /\ UNCHANGED stream

increment(key, amount, initial, expiration) ==
    /\ last' = panic("increment", [key |-> key, amount |-> amount, initial |-> initial, expiration |-> expiration], stream,
                     "increment command no supported for text protocol.")
    /\ UNCHANGED stream

decrement(key, amount, initial, expiration) ==
    /\ last' = panic("decrement", [key |-> key, amount |-> amount, initial |-> initial, expiration |-> expiration], stream,
                     "decrement command no supported for text protocol.")
    /\ UNCHANGED stream

append(key, value) ==
    /\ last' = panic("append", [key |-> key, value |-> value], stream,
                     "append command no supported for text protocol.")
    /\ UNCHANGED stream

prepend(key, value) ==
    /\ last' = panic("prepend", [key |-> key, value |-> value], stream,
                     "prepend command no supported for text protocol.")
    /\ UNCHANGED stream

touch(key, expiration) ==
    /\ last' = panic("touch", [key |-> key, expiration |-> expiration], stream,
                     "touch command no supported for text protocol.")
    /\ UNCHANGED stream

\* impl ServerOperation for TextProto (text.rs 127-147)
quit ==
    /\ last' = panic("quit", [none |-> "none"], stream,
                     "quit command no supported for text protocol.")
    /\ UNCHANGED stream

flush(expiration) ==
    /\ last' = panic("flush", [expiration |-> expiration], stream,
                     "flush command no supported for text protocol.")
    /\ UNCHANGED stream

\* A noop that sends the binary NoOp on its way to failing.
noop_sends ==
    /\ last' = panic("noop", [none |-> "none"], stream,
                     "noop command no supported for text protocol.")
    /\ stream' = [stream EXCEPT !.written = Append(@, [verb |-> "noop", noreply |-> FALSE]),
                                !.flushes = @ + 1]

noop ==
    /\ last' = panic("noop", [none |-> "none"], stream,
                     "noop command no supported for text protocol.")
    /\ UNCHANGED stream

version ==
    /\ last' = panic("version", [none |-> "none"], stream,
                     "version command no supported for text protocol.")
    /\ UNCHANGED stream

\* A stat that returns an empty map instead of panicking.
stat_returns ==
    /\ last' = [op |-> "stat", args |-> [none |-> "none"], pre |-> stream, kind |-> "ok",
                result |-> [tag |-> "map", map |-> <<>>], msg |-> ""]
    /\ UNCHANGED stream

stat ==
    /\ last' = panic("stat", [none |-> "none"], stream,
                     "stat command no supported for text protocol.")
    /\ UNCHANGED stream

\* impl MultiOperation for TextProto (text.rs 149-168)
set_multi(kv) ==
    /\ last' = panic("set_multi", [kv |-> kv], stream,
                     "set_multi command no supported for text protocol.")
    /\ UNCHANGED stream

delete_multi(keys) ==
    /\ last' = panic("delete_multi", [keys |-> keys], stream,
                     "delete_multi command no supported for text protocol.")
    /\ UNCHANGED stream

increment_multi(kv) ==
    /\ last' = panic("increment_multi", [kv |-> kv], stream,
                     "increment_multi command no supported for text protocol.")
    /\ UNCHANGED stream

get_multi(keys) ==
    /\ last' = panic("get_multi", [keys |-> keys], stream,
                     "get_multi command no supported for text protocol.")
    /\ UNCHANGED stream

\* impl NoReplyOperation for TextProto (text.rs 170-202)
set_noreply(key, value, flags, expiration) ==
    /\ last' = panic("set_noreply", [key |-> key, value |-> value, flags |-> flags, expiration |-> expiration], stream,
                     "set_noreply command no supported for text protocol.")
    /\ UNCHANGED stream

add_noreply(key, value, flags, expiration) ==
    /\ last' = panic("add_noreply", [key |-> key, value |-> value, flags |-> flags, expiration |-> expiration], stream,
                     "add_noreply command no supported for text protocol.")
    /\ UNCHANGED stream

delete_noreply(key) ==
    /\ last' = panic("delete_noreply", [key |-> key], stream,
                     "delete_noreply command no supported for text protocol.")
    /\ UNCHANGED stream

replace_noreply(key, value, flags, expiration) ==
    /\ last' = panic("replace_noreply", [key |-> key, value |-> value, flags |-> flags, expiration |-> expiration], stream,
                     "replace_noreply command no supported for text protocol.")
    /\ UNCHANGED stream

increment_noreply(key, amount, initial, expiration) ==
    /\ last' = panic("increment_noreply", [key |-> key, amount |-> amount, initial |-> initial, expiration |-> expiration], stream,
                     "increment_noreply command no supported for text protocol.")
    /\ UNCHANGED stream

decrement_noreply(key, amount, initial, expiration) ==
    /\ last' = panic("decrement_noreply", [key |-> key, amount |-> amount, initial |-> initial, expiration |-> expiration], stream,
                     "decrement_noreply command no supported for text protocol.")
    /\ UNCHANGED stream

append_noreply(key, value) ==
    /\ last' = panic("append_noreply", [key |-> key, value |-> value], stream,
                     "append_noreply command no supported for text protocol.")
    /\ UNCHANGED stream

prepend_noreply(key, value) ==
    /\ last' = panic("prepend_noreply", [key |-> key, value |-> value], stream,
                     "prepend_noreply command no supported for text protocol.")
    /\ UNCHANGED stream

\* impl CasOperation for TextProto (text.rs 204-258)
set_cas(key, value, flags, expiration, cas) ==
    /\ last' = panic("set_cas", [key |-> key, value |-> value, flags |-> flags, expiration |-> expiration, cas |-> cas], stream,
                     "set_cas command no supported for text protocol.")
    /\ UNCHANGED stream

add_cas(key, value, flags, expiration) ==
    /\ last' = panic("add_cas", [key |-> key, value |-> value, flags |-> flags, expiration |-> expiration], stream,
                     "add_cas command no supported for text protocol.")
    /\ UNCHANGED stream

replace_cas(key, value, flags, expiration, cas) ==
    /\ last' = panic("replace_cas", [key |-> key, value |-> value, flags |-> flags, expiration |-> expiration, cas |-> cas], stream,
                     "replace_cas command no supported for text protocol.")
    /\ UNCHANGED stream

get_cas(key) ==
    /\ last' = panic("get_cas", [key |-> key], stream,
                     "get_cas command no supported for text protocol.")
    /\ UNCHANGED stream

getk_cas(key) ==
    /\ last' = panic("getk_cas", [key |-> key], stream,
                     "getk_cas command no supported for text protocol.")
    /\ UNCHANGED stream

increment_cas(key, amount, initial, expiration, cas) ==
    /\ last' = panic("increment_cas", [key |-> key, amount |-> amount, initial |-> initial, expiration |-> expiration, cas |-> cas], stream,
                     "increment_cas command no supported for text protocol.")
    /\ UNCHANGED stream

decrement_cas(key, amount, initial, expiration, cas) ==
    /\ last' = panic("decrement_cas", [key |-> key, amount |-> amount, initial |-> initial, expiration |-> expiration, cas |-> cas], stream,
                     "decrement_cas command no supported for text protocol.")
    /\ UNCHANGED stream

append_cas(key, value, cas) ==
    /\ last' = panic("append_cas", [key |-> key, value |-> value, cas |-> cas], stream,
                     "append_cas command no supported for text protocol.")
    /\ UNCHANGED stream

prepend_cas(key, value, cas) ==
    /\ last' = panic("prepend_cas", [key |-> key, value |-> value, cas |-> cas], stream,
                     "prepend_cas command no supported for text protocol.")
    /\ UNCHANGED stream

touch_cas(key, expiration, cas) ==
    /\ last' = panic("touch_cas", [key |-> key, expiration |-> expiration, cas |-> cas], stream,
                     "touch_cas command no supported for text protocol.")
    /\ UNCHANGED stream

\* impl AuthOperation for TextProto (text.rs 260-272)
list_mechanisms ==
    /\ last' = panic("list_mechanisms", [none |-> "none"], stream,
                     "list_mechanisms command no supported for text protocol.")
    /\ UNCHANGED stream

auth_start(mech, init) ==
    /\ last' = panic("auth_start", [mech |-> mech, init |-> init], stream,
                     "auth_start command no supported for text protocol.")
    /\ UNCHANGED stream

auth_continue(mech, data) ==
    /\ last' = panic("auth_continue", [mech |-> mech, data |-> data], stream,
                     "auth_continue command no supported for text protocol.")
    /\ UNCHANGED stream

(***************************************************************************)
(* The server and the peer act at any time; the owner of the adapter calls *)
(* one method at a time (&mut self).  A panic unwinds to the caller, which *)
(* may catch it (std::panic::catch_unwind) and call the adapter again.     *)
(***************************************************************************)
Next ==
    \/ \E line \in ReplyLines : ServerReply(line)
    \/ PeerClose
    \/ \E key \in Keys, value \in Values, flags \in Flags, expiration \in Expirations :
          set(key, value, flags, expiration)
    \/ \E key \in Keys, value \in Values, flags \in Flags, expiration \in Expirations :
          add(key, value, flags, expiration)
    \/ \E key \in Keys :
          delete(key)
    \/ \E key \in Keys, value \in Values, flags \in Flags, expiration \in Expirations :
          replace(key, value, flags, expiration)
    \/ \E key \in Keys :
          get(key)
    \/ \E key \in Keys :
          getk(key)
    \/ \E key \in Keys, amount \in Amounts, initial \in Initials, expiration \in Expirations :
          increment(key, amount, initial, expiration)
    \/ \E key \in Keys, amount \in Amounts, initial \in Initials, expiration \in Expirations :
          decrement(key, amount, initial, expiration)
    \/ \E key \in Keys, value \in Values :
          append(key, value)
    \/ \E key \in Keys, value \in Values :
          prepend(key, value)
    \/ \E key \in Keys, expiration \in Expirations :
          touch(key, expiration)
    \/ quit
    \/ \E expiration \in Expirations :
          flush(expiration)
    \/ noop
    \/ version
    \/ stat
    \/ \E kv \in SetMultiArgs :
          set_multi(kv)
    \/ \E keys \in KeyLists :
          delete_multi(keys)
    \/ \E kv \in IncrementMultiArgs :
          increment_multi(kv)
    \/ \E keys \in KeyLists :
          get_multi(keys)
    \/ \E key \in Keys, value \in Values, flags \in Flags, expiration \in Expirations :
          set_noreply(key, value, flags, expiration)
    \/ \E key \in Keys, value \in Values, flags \in Flags, expiration \in Expirations :
          add_noreply(key, value, flags, expiration)
    \/ \E key \in Keys :
          delete_noreply(key)
    \/ \E key \in Keys, value \in Values, flags \in Flags, expiration \in Expirations :
          replace_noreply(key, value, flags, expiration)
    \/ \E key \in Keys, amount \in Amounts, initial \in Initials, expiration \in Expirations :
          increment_noreply(key, amount, initial, expiration)
    \/ \E key \in Keys, amount \in Amounts, initial \in Initials, expiration \in Expirations :
          decrement_noreply(key, amount, initial, expiration)
    \/ \E key \in Keys, value \in Values :
          append_noreply(key, value)
    \/ \E key \in Keys, value \in Values :
          prepend_noreply(key, value)
    \/ \E key \in Keys, value \in Values, flags \in Flags, expiration \in Expirations, cas \in CasTokens :
          set_cas(key, value, flags, expiration, cas)
    \/ \E key \in Keys, value \in Values, flags \in Flags, expiration \in Expirations :
          add_cas(key, value, flags, expiration)
    \/ \E key \in Keys, value \in Values, flags \in Flags, expiration \in Expirations, cas \in CasTokens :
          replace_cas(key, value, flags, expiration, cas)
    \/ \E key \in Keys :
          get_cas(key)
    \/ \E key \in Keys :
          getk_cas(key)
    \/ \E key \in Keys, amount \in Amounts, initial \in Initials, expiration \in Expirations, cas \in CasTokens :
          increment_cas(key, amount, initial, expiration, cas)
    \/ \E key \in Keys, amount \in Amounts, initial \in Initials, expiration \in Expirations, cas \in CasTokens :
          decrement_cas(key, amount, initial, expiration, cas)
    \/ \E key \in Keys, value \in Values, cas \in CasTokens :
          append_cas(key, value, cas)
    \/ \E key \in Keys, value \in Values, cas \in CasTokens :
          prepend_cas(key, value, cas)
    \/ \E key \in Keys, expiration \in Expirations, cas \in CasTokens :
          touch_cas(key, expiration, cas)
    \/ list_mechanisms
    \/ \E mech \in Mechs, init \in Values :
          auth_start(mech, init)
    \/ \E mech \in Mechs, data \in Values :
          auth_continue(mech, data)

Spec == Init /\ [][Next]_vars

(***************************************************************************)
(* Vocabulary of the properties.                                           *)
(***************************************************************************)
\* The operations the capability surface lists as Unsupported on text.
UnsupportedOps ==
    {"noop", "list_mechanisms", "auth_start", "auth_continue", "add_cas",
     "increment_cas", "decrement_cas", "touch_cas", "append_cas", "prepend_cas"}

\* The stream's I/O counters are what they were when the last call began.
NoIOSince(pre) ==
    /\ stream.written = pre.written
    /\ stream.flushes = pre.flushes
    /\ stream.rpos = pre.rpos

\* The reply lines a call found unread on the stream.
Pending(s) == SubSeq(s.inbound, s.rpos + 1, Len(s.inbound))

(***************************************************************************)
(* C1.  Every operation listed as Unsupported (noop, list_mechanisms,      *)
(* auth_start, auth_continue, add_cas, increment_cas, decrement_cas,       *)
(* touch_cas, append_cas, prepend_cas) returns the error Unsupported to    *)
(* its caller, for every argument and in every adapter state; it never     *)
(* panics.                                                                 *)
(***************************************************************************)
C1_UnsupportedReturnsUnsupported ==
    last.op \in UnsupportedOps =>
        /\ last.kind = "err"
        /\ last.result.tag = "Unsupported"

(***************************************************************************)
(* C2.  An operation of the Unsupported set, and any call that ends with   *)
(* Unsupported, performs zero bytes of I/O: the bytes written to the       *)
(* stream, the flush count and the read position are the same after the    *)
(* call as before it.                                                      *)
(***************************************************************************)
C2_UnsupportedNoIO ==
    (last.op \in UnsupportedOps \/ last.result.tag = "Unsupported") =>
        NoIOSince(last.pre)

\* An Unsupported operation was called with a reply line unread on the stream
\* and left the stream as it found it.
C2_Witness ==
    /\ last.op \in UnsupportedOps
    /\ Len(Pending(last.pre)) > 0
    /\ NoIOSince(last.pre)

(***************************************************************************)
(* Vocabulary of the wire contract: which operations put one command on    *)
(* the stream and read one reply, the shape of that reply, and the outcome *)
(* each reply stands for.                                                  *)
(***************************************************************************)
StatusOps ==
    {"set", "add", "delete", "replace", "append", "prepend", "touch", "flush",
     "set_cas", "replace_cas"}

ValueOps == {"get", "getk", "get_cas", "getk_cas"}

StreamOps == {"get_multi", "stat"}

NumericOps == {"increment", "decrement"}

SingleReplyOps == StatusOps \cup ValueOps \cup StreamOps \cup NumericOps \cup {"version"}

NoReplyOps ==
    {"set_noreply", "add_noreply", "delete_noreply", "replace_noreply",
     "increment_noreply", "decrement_noreply", "append_noreply", "prepend_noreply"}

\* The command verb of each operation on the wire.
Verb(op) ==
    CASE op \in {"set", "set_noreply"} -> "set"
      [] op \in {"add", "add_noreply"} -> "add"
      [] op \in {"replace", "replace_noreply"} -> "replace"
      [] op \in {"append", "append_noreply"} -> "append"
      [] op \in {"prepend", "prepend_noreply"} -> "prepend"
      [] op \in {"delete", "delete_noreply"} -> "delete"
      [] op \in {"increment", "increment_noreply"} -> "incr"
      [] op \in {"decrement", "decrement_noreply"} -> "decr"
      [] op \in {"set_cas", "replace_cas"} -> "cas"
      [] op \in {"get", "getk", "get_multi"} -> "get"
      [] op \in {"get_cas", "getk_cas"} -> "gets"
      [] op = "touch" -> "touch"
      [] op = "flush" -> "flush_all"
      [] op = "stat" -> "stats"
      [] OTHER -> op

ErrorToks == {"ERROR", "CLIENT_ERROR", "SERVER_ERROR"}

\* The error an error line stands for.
ErrorOf(line) ==
    CASE line.tok = "SERVER_ERROR" -> [tag |-> "ServerError", detail |-> line.arg]
      [] line.tok = "CLIENT_ERROR" -> [tag |-> "ClientError", detail |-> line.arg]
      [] OTHER -> [tag |-> "ProtocolError"]

\* The number of lines of the reply at the head of P for op: one line for a
\* status, numeric or version reply and for an error line, the lines up to and
\* including END or an error line for a VALUE or STAT stream; 0 when P holds no
\* complete reply.
ReplyLen(op, P) ==
    IF P = <<>> THEN 0
    ELSE IF op \in ValueOps \cup StreamOps
    THEN LET ends == {i \in 1..Len(P) : P[i].tok \in ErrorToks \cup {"END"}}
         IN  IF ends = {} THEN 0 ELSE CHOOSE i \in ends : \A j \in ends : i <= j
    ELSE 1

\* The commands written, and the verbs of those written since pre.
VerbsSince(pre) ==
    [i \in 1..(Len(stream.written) - Len(pre.written)) |->
        stream.written[Len(pre.written) + i].verb]

\* A step that is a method call.
CallStep == last' # last

\* The call met a transport error mid-reply: it reads a reply, and the stream
\* ended before a complete one.
TransportFault(c) ==
    /\ c.op \in SingleReplyOps
    /\ c.pre.eof
    /\ ReplyLen(c.op, Pending(c.pre)) = 0

(***************************************************************************)
(* C3.  Poisoning is durable: once an operation has ended with a           *)
(* ProtocolError or an IoError (a truncated reply followed by EOF), every  *)
(* later operation returns Poisoned and neither reads from nor writes to   *)
(* the stream.  Stated as a step property: a call that follows a failed    *)
(* or poisoned call returns Poisoned and leaves the stream as it was.      *)
(***************************************************************************)
Failed(c) ==
    \/ c.kind = "err" /\ c.result.tag \in {"ProtocolError", "IoError", "Poisoned"}
    \/ TransportFault(c)

C3_PoisoningDurable ==
    [][(CallStep /\ Failed(last)) =>
          /\ last'.kind = "err"
          /\ last'.result.tag = "Poisoned"
          /\ stream' = stream]_vars

(***************************************************************************)
(* C4.  Status errors (NotFound, NotStored, Exists) and SERVER_ERROR /     *)
(* CLIENT_ERROR replies never poison: the operation after one of them      *)
(* writes its command, flushes, parses its own reply and returns that      *)
(* reply's outcome, not Poisoned.                                          *)
(***************************************************************************)
EndedRecoverable(c) ==
    \/ c.kind = "err"
       /\ c.result.tag \in {"NotFound", "NotStored", "Exists", "ServerError", "ClientError"}
    \/ /\ c.op \in SingleReplyOps
       /\ Pending(c.pre) # <<>>
       /\ \/ Pending(c.pre)[1].tok \in {"SERVER_ERROR", "CLIENT_ERROR"}
          \/ /\ c.op \in StatusOps
             /\ Pending(c.pre)[1].tok \in {"NOT_FOUND", "NOT_STORED", "EXISTS"}

\* The step is a round trip of last'.op: one command written, one flush, its
\* reply consumed, and the call returned.
RoundTrip ==
    /\ Len(stream'.written) = Len(stream.written) + 1
    /\ stream'.written[Len(stream'.written)].verb = Verb(last'.op)
    /\ stream'.flushes = stream.flushes + 1
    /\ stream'.rpos = stream.rpos + ReplyLen(last'.op, Pending(stream))
    /\ last'.kind \in {"ok", "err"}

C4_StatusErrorsDoNotPoison ==
    [][(/\ CallStep
        /\ EndedRecoverable(last)
        /\ last'.op \in SingleReplyOps
        /\ ReplyLen(last'.op, Pending(stream)) > 0) =>
          /\ RoundTrip
          /\ last'.result.tag # "Poisoned"]_vars

(***************************************************************************)
(* C5.  Every no-reply operation writes its command with the noreply       *)
(* token, flushes, reads zero bytes and returns success; an error line the *)
(* server sends in response is consumed by, and surfaces as the result of, *)
(* the next operation that reads a reply.                                  *)
(***************************************************************************)
C5_NoReplyWritesFlushesReturns ==
    [][CallStep =>
          /\ last'.op \in NoReplyOps =>
                /\ Len(stream'.written) = Len(stream.written) + 1
                /\ stream'.written[Len(stream'.written)].verb = Verb(last'.op)
                /\ stream'.written[Len(stream'.written)].noreply
                /\ stream'.flushes = stream.flushes + 1
                /\ stream'.rpos = stream.rpos
                /\ last'.kind = "ok"
          /\ (/\ last.op \in NoReplyOps
              /\ last'.op \in SingleReplyOps
              /\ Pending(stream) # <<>>
              /\ Pending(stream)[1].tok \in ErrorToks) =>
                /\ stream'.rpos = stream.rpos + 1
                /\ last'.kind = "err"
                /\ last'.result = ErrorOf(Pending(stream)[1])]_vars

(***************************************************************************)
(* C6.  increment/decrement emulate the initial value: when incr/decr is   *)
(* answered NOT_FOUND the adapter issues an add of the initial value; if   *)
(* the add is answered STORED the operation returns initial; if it is      *)
(* answered NOT_STORED the adapter re-sends the incr/decr exactly once and *)
(* returns that reply's number; if the second incr/decr is again answered  *)
(* NOT_FOUND the operation returns the NotFound error.                     *)
(***************************************************************************)
\* The number a numeric reply line carries.
NumberOf(line) == IF line.arg = "6" THEN 6 ELSE 0

C6_InitialEmulation ==
    last.op \in NumericOps =>
        LET P == Pending(last.pre)
            cmd == Verb(last.op)
        IN  /\ IsPrefix(<<NOT_FOUND, STORED>>, P) =>
                  /\ last.kind = "ok"
                  /\ last.result = [tag |-> "number", n |-> last.args.initial]
                  /\ VerbsSince(last.pre) = <<cmd, "add">>
            /\ (/\ IsPrefix(<<NOT_FOUND, NOT_STORED>>, P)
                /\ Len(P) >= 3
                /\ P[3].tok = "NUMBER") =>
                  /\ last.kind = "ok"
                  /\ last.result = [tag |-> "number", n |-> NumberOf(P[3])]
                  /\ VerbsSince(last.pre) = <<cmd, "add", cmd>>
            /\ IsPrefix(<<NOT_FOUND, NOT_STORED, NOT_FOUND>>, P) =>
                  /\ last.kind = "err"
                  /\ last.result.tag = "NotFound"
                  /\ VerbsSince(last.pre) = <<cmd, "add", cmd>>

(***************************************************************************)
(* C7.  At most one command is in flight per adapter and commands and      *)
(* replies are strictly FIFO: no command is written while an earlier       *)
(* reply-bearing command's reply is not fully consumed, and the k-th reply *)
(* on the stream is parsed as the answer to the k-th reply-bearing         *)
(* command.  Between calls: a call of a reply-bearing operation whose      *)
(* reply is on the stream has written exactly its one command and          *)
(* consumed exactly the lines of its own reply, so that the next reply     *)
(* is at the head of the stream for the next command.                      *)
(***************************************************************************)
C7_OneInFlightFIFO ==
    (/\ last.op \in SingleReplyOps \ NumericOps
     /\ ReplyLen(last.op, Pending(last.pre)) > 0) =>
        /\ VerbsSince(last.pre) = <<Verb(last.op)>>
        /\ stream.flushes = last.pre.flushes + 1
        /\ stream.rpos = last.pre.rpos + ReplyLen(last.op, Pending(last.pre))

(***************************************************************************)
(* C8.  Single-key get/getk/get_cas/getk_cas: one VALUE entry whose key    *)
(* equals the request key followed by END returns that value and flags;    *)
(* only END returns the NotFound error; a VALUE entry whose key differs    *)
(* from the request key returns ProtocolError; more than one VALUE entry   *)
(* before END returns ProtocolError.                                       *)
(***************************************************************************)
C8_SingleKeyGet ==
    last.op \in ValueOps =>
        LET P == Pending(last.pre)
            k == last.args.key
        IN  /\ (/\ Len(P) >= 2
                /\ P[1].tok = "VALUE"
                /\ P[1].arg = k
                /\ P[2] = END) =>
                  /\ last.kind = "ok"
                  /\ last.result.tag = "value"
                  /\ last.result.data = P[1].data
                  /\ last.result.flags = P[1].flags
            /\ (P # <<>> /\ P[1] = END) =>
                  /\ last.kind = "err"
                  /\ last.result.tag = "NotFound"
            /\ (/\ ReplyLen(last.op, P) > 0
                /\ P[1].tok = "VALUE"
                /\ P[1].arg # k) =>
                  /\ last.kind = "err"
                  /\ last.result.tag = "ProtocolError"
            /\ (/\ Len(P) >= 2
                /\ P[1].tok = "VALUE"
                /\ P[2].tok = "VALUE") =>
                  /\ last.kind = "err"
                  /\ last.result.tag = "ProtocolError"

(***************************************************************************)
(* C9.  get_multi returns a map whose key set is exactly the set of keys   *)
(* carried by the VALUE entries of the reply: a requested key absent from  *)
(* the reply is absent from the map and causes no error, and a reply that  *)
(* carries the same key in two VALUE entries yields ProtocolError.         *)
(***************************************************************************)
\* The entries of the stream reply at the head of P: the lines before its
\* terminator.
Entries(op, P) == SubSeq(P, 1, ReplyLen(op, P) - 1)

EntryKeys(E) == {E[i].arg : i \in 1..Len(E)}

C9_GetMultiKeySet ==
    (/\ last.op = "get_multi"
     /\ ReplyLen(last.op, Pending(last.pre)) > 0
     /\ Pending(last.pre)[ReplyLen(last.op, Pending(last.pre))] = END) =>
        LET E == Entries(last.op, Pending(last.pre))
        IN  IF \E i, j \in 1..Len(E) : i # j /\ E[i].arg = E[j].arg
            THEN /\ last.kind = "err"
                 /\ last.result.tag = "ProtocolError"
            ELSE /\ last.kind = "ok"
                 /\ last.result.tag = "map"
                 /\ DOMAIN last.result.map = EntryKeys(E)

(***************************************************************************)
(* C10.  When an ERROR, CLIENT_ERROR or SERVER_ERROR line arrives in the   *)
(* middle of a multi-line reply (after one or more VALUE entries or STAT   *)
(* lines and before END), the operation ends at that line, returns the     *)
(* corresponding error, and returns none of the entries parsed before it.  *)
(***************************************************************************)
C10_ErrorMidReplyIsTerminal ==
    (/\ last.op \in StreamOps
     /\ ReplyLen(last.op, Pending(last.pre)) > 1
     /\ Pending(last.pre)[ReplyLen(last.op, Pending(last.pre))].tok \in ErrorToks) =>
        /\ stream.rpos = last.pre.rpos + ReplyLen(last.op, Pending(last.pre))
        /\ last.kind = "err"
        /\ last.result = ErrorOf(Pending(last.pre)[ReplyLen(last.op, Pending(last.pre))])

(***************************************************************************)
(* C11.  set_multi and delete_multi are best-effort: one individual        *)
(* command is sent for every key of the input even when an earlier key's   *)
(* command failed, and when at least one key failed the call returns an    *)
(* aggregate error whose per-key failure map contains exactly the failed   *)
(* keys.                                                                   *)
(***************************************************************************)
\* The order in which a BTreeMap yields the keys.
KeyOrder == <<"", "a", "b">>

RECURSIVE Sorted(_, _)
Sorted(S, i) ==
    IF i > Len(KeyOrder) THEN <<>>
    ELSE (IF KeyOrder[i] \in S THEN <<KeyOrder[i]>> ELSE <<>>) \o Sorted(S, i + 1)

\* The keys of a multi-key write, in the order their commands are sent.
MultiKeys(c) ==
    IF c.op = "delete_multi" THEN c.args.keys ELSE Sorted(DOMAIN c.args.kv, 1)

MultiVerb(op) == IF op = "set_multi" THEN "set" ELSE "delete"

MultiSuccess(op) == IF op = "set_multi" THEN "STORED" ELSE "DELETED"

C11_MultiWriteBestEffort ==
    (/\ last.op \in {"set_multi", "delete_multi"}
     /\ Len(MultiKeys(last)) > 0
     /\ Len(Pending(last.pre)) >= Len(MultiKeys(last))) =>
        LET keys == MultiKeys(last)
            P == Pending(last.pre)
            failed == {keys[i] : i \in {j \in 1..Len(keys) : P[j].tok # MultiSuccess(last.op)}}
        IN  /\ VerbsSince(last.pre) = [i \in 1..Len(keys) |-> MultiVerb(last.op)]
            /\ stream.rpos = last.pre.rpos + Len(keys)
            /\ IF failed = {}
               THEN last.kind = "ok"
               ELSE /\ last.kind = "err"
                    /\ last.result.tag = "Aggregate"
                    /\ DOMAIN last.result.failures = failed

(***************************************************************************)
(* C12.  CAS round-trip across clients: after get_cas(k) yields token T, a *)
(* following set_cas(k, V', F', 0, T) returns Stored if and only if no     *)
(* write by any client changed k between the two calls; otherwise it       *)
(* returns Exists.  The server answers the cas command STORED when k is    *)
(* unchanged since the gets and EXISTS when another client wrote it, so on *)
(* the adapter: get_cas returns the token of the VALUE entry, and the      *)
(* set_cas that follows with that token returns Stored on STORED and the   *)
(* Exists error on EXISTS.                                                 *)
(***************************************************************************)
C12_CasRoundTrip ==
    [][(/\ CallStep
        /\ last.op = "get_cas"
        /\ last'.op = "set_cas"
        /\ last'.args.key = last.args.key
        /\ Len(stream.inbound) >= last.pre.rpos + 3
        /\ stream.inbound[last.pre.rpos + 1].tok = "VALUE"
        /\ stream.inbound[last.pre.rpos + 1].arg = last.args.key
        /\ stream.inbound[last.pre.rpos + 1].cas = last'.args.cas
        /\ stream.inbound[last.pre.rpos + 2] = END
        /\ stream.inbound[last.pre.rpos + 3].tok \in {"STORED", "EXISTS"}) =>
          /\ last.kind = "ok"
          /\ last.result.cas = last'.args.cas
          /\ stream.inbound[last.pre.rpos + 3].tok = "STORED" =>
                (last'.kind = "ok" /\ last'.result.tag = "Stored")
          /\ stream.inbound[last.pre.rpos + 3].tok = "EXISTS" =>
                (last'.kind = "err" /\ last'.result.tag = "Exists")]_vars

(***************************************************************************)
(* C13.  Set/get round-trip: for every valid key k, every value V shorter  *)
(* than 2^20 bytes and every flags F, set(k, V, F, 0) followed by get(k)   *)
(* on the same adapter, with no intervening write to k, returns (V, F)     *)
(* unchanged.  The server answers the set STORED and, k being unwritten    *)
(* in between, the get with the VALUE entry holding (V, F), then END.      *)
(***************************************************************************)
C13_SetGetRoundTrip ==
    [][(/\ CallStep
        /\ last.op = "set"
        /\ last'.op = "get"
        /\ last'.args.key = last.args.key
        /\ last.args.expiration = 0
        /\ Len(stream.inbound) >= last.pre.rpos + 3
        /\ stream.inbound[last.pre.rpos + 1] = STORED
        /\ stream.inbound[last.pre.rpos + 2] =
              ValueEntry(last.args.key, last.args.flags, last.args.value)
        /\ stream.inbound[last.pre.rpos + 3] = END) =>
          /\ last.kind = "ok"
          /\ last'.kind = "ok"
          /\ last'.result.tag = "value"
          /\ last'.result.data = last.args.value
          /\ last'.result.flags = last.args.flags]_vars

(***************************************************************************)
(* C14.  For every status-only reply line the outcome is determined by the *)
(* token table: STORED, NOT_STORED, EXISTS, NOT_FOUND, DELETED, TOUCHED,   *)
(* OK map to the same-named status, ERROR and every unrecognized token map *)
(* to ProtocolError, CLIENT_ERROR/SERVER_ERROR map to ClientError /        *)
(* ServerError with the message; a unit-returning write succeeds only on   *)
(* Stored and returns a Status error carrying the status on NotStored,     *)
(* Exists or NotFound.                                                     *)
(***************************************************************************)
StatusTok ==
    {"STORED", "NOT_STORED", "EXISTS", "NOT_FOUND", "DELETED", "TOUCHED", "OK"}

\* The status a reply token stands for.
StatusOf(line) ==
    CASE line.tok = "STORED" -> [tag |-> "Stored"]
      [] line.tok = "NOT_STORED" -> [tag |-> "NotStored"]
      [] line.tok = "EXISTS" -> [tag |-> "Exists"]
      [] line.tok = "NOT_FOUND" -> [tag |-> "NotFound"]
      [] line.tok = "DELETED" -> [tag |-> "Deleted"]
      [] line.tok = "TOUCHED" -> [tag |-> "Touched"]
      [] line.tok = "OK" -> [tag |-> "Ok"]
      [] OTHER -> ErrorOf(line)

UnitWrites == {"set", "add", "replace", "append", "prepend"}

C14_StatusTokenTable ==
    (last.op \in UnitWrites /\ Pending(last.pre) # <<>>) =>
        LET line == Pending(last.pre)[1]
        IN  /\ stream.rpos = last.pre.rpos + 1
            /\ IF line.tok = "STORED"
               THEN last.kind = "ok"
               ELSE /\ last.kind = "err"
                    /\ line.tok \in {"NOT_STORED", "EXISTS", "NOT_FOUND"} \cup ErrorToks =>
                          last.result = StatusOf(line)
                    /\ line.tok \notin StatusTok \cup ErrorToks =>
                          last.result.tag = "ProtocolError"

(***************************************************************************)
(* C15.  Every key-bearing operation called with an invalid key (empty,    *)
(* longer than 250 bytes, or containing space, CR or LF) fails with        *)
(* InvalidArgument, before any byte is written to the stream and without   *)
(* poisoning the adapter.                                                  *)
(***************************************************************************)
ValidKey(k) ==
    /\ Len(k) >= 1
    /\ Len(k) <= 250
    /\ \A i \in 1..Len(k) : SubSeq(k, i, i) \notin {" ", "\r", "\n"}

C15_InvalidKeyRejected ==
    (/\ last.op \notin UnsupportedOps
     /\ "key" \in DOMAIN last.args
     /\ ~ValidKey(last.args.key)) =>
        /\ last.kind = "err"
        /\ last.result.tag = "InvalidArgument"
        /\ NoIOSince(last.pre)

(***************************************************************************)
(* C16.  No error is retried inside the adapter and every operation        *)
(* terminates after a bounded number of commands: every single-key         *)
(* operation and get_multi sends exactly one command per call, set_multi / *)
(* delete_multi send one command per key, and only increment/decrement may *)
(* send more, at most three (incr/decr, add, incr/decr).                   *)
(***************************************************************************)
\* The number of commands the last call put on the stream.
Sent == Len(stream.written) - Len(last.pre.written)

C16_CommandsPerCall ==
    /\ (/\ last.op \notin UnsupportedOps \cup NumericOps
        /\ "key" \in DOMAIN last.args
        /\ ValidKey(last.args.key)) => Sent = 1
    /\ (last.op = "get_multi" /\ Len(last.args.keys) > 0) => Sent = 1
    /\ last.op \in {"set_multi", "delete_multi"} => Sent = Len(MultiKeys(last))
    /\ (last.op \in NumericOps /\ ValidKey(last.args.key)) => Sent \in 1..3

(***************************************************************************)
(* C17.  In every reachable state the bytes written to the stream are a    *)
(* concatenation of well-framed commands: each command's header line ends  *)
(* with exactly one CRLF, and each value-bearing command (set, add,        *)
(* replace, append, prepend, cas) is immediately followed by a value block *)
(* whose length equals the byte count declared in its header, then CRLF.   *)
(* A written command is a record of its header fields and its value block; *)
(* the source writes none, so no reachable state holds a command to frame. *)
(***************************************************************************)
ValueVerbs == {"set", "add", "replace", "append", "prepend", "cas"}

WellFramed(c) ==
    /\ c.header_crlf = 1
    /\ c.verb \in ValueVerbs => (c.bytes = Len(c.value) /\ c.value_crlf = 1)

C17_WellFramedCommands ==
    \A i \in 1..Len(stream.written) : WellFramed(stream.written[i])

\* Some command is on the stream.
C17_SomeCommandWritten == stream.written # <<>>

(***************************************************************************)
(* C18.  In the provided source every operation of TextProto (all methods  *)
(* of Operation, ServerOperation, MultiOperation, NoReplyOperation,        *)
(* CasOperation and AuthOperation) raises an abort with the message "not   *)
(* supported for text protocol" for every input, and none ever returns a   *)
(* value to its caller.                                                    *)
(***************************************************************************)
\* s holds p as a substring.
Contains(s, p) ==
    \E i \in 1..(Len(s) - Len(p) + 1) : SubSeq(s, i, i + Len(p) - 1) = p

\* A method has been called since construction.
Called == last.op # "new"

\* As claimed: the message carries the words "not supported for text protocol".
C18_AbortsNotSupported ==
    Called =>
        /\ last.kind = "panic"
        /\ Contains(last.msg, "not supported for text protocol")

\* The name a method's message opens with: the method's own, capitalised for
\* set, add, delete and replace.
MessageName(op) ==
    CASE op = "set" -> "Set"
      [] op = "add" -> "Add"
      [] op = "delete" -> "Delete"
      [] op = "replace" -> "Replace"
      [] OTHER -> op

\* As amended: every operation panics with the message "<name> command no
\* supported for text protocol." (so worded in the source), for every input, and
\* none returns a value.
C18_AbortsNoSupported ==
    Called =>
        /\ last.kind = "panic"
        /\ last.result.tag = "none"
        /\ last.msg = MessageName(last.op) \o " command no supported for text protocol."

\* A method was called with arguments and with a reply waiting on the stream,
\* and panicked.
C18_Witness ==
    /\ last.op = "get_multi"
    /\ last.args.keys # <<>>
    /\ Pending(last.pre) # <<>>
    /\ last.kind = "panic"

(***************************************************************************)
(* C19.  TextProto::new and every operation of TextProto leave the owned   *)
(* stream unchanged: after any sequence of constructor and operation       *)
(* calls, zero bytes have been written to, flushed on, or read from the    *)
(* stream, and the outcome of a call does not depend on the call's         *)
(* arguments, on earlier calls or on bytes pending in the stream: a call   *)
(* of the method called last, with other arguments or on another stream    *)
(* state, ends as that call ended.                                         *)
(***************************************************************************)
\* How a call ended, apart from what it was called with.
Outcome(c) == [kind |-> c.kind, result |-> c.result, msg |-> c.msg]

C19_StreamUntouched ==
    /\ [](/\ stream.written = <<>>
          /\ stream.flushes = 0
          /\ stream.rpos = 0)
    /\ [][(CallStep /\ last'.op = last.op) => Outcome(last') = Outcome(last)]_vars

\* A method was called after the peer had sent a reply line and closed the
\* stream, and nothing has been written, flushed or read.
C19_Witness ==
    /\ last.op = "set_noreply"
    /\ Pending(last.pre) # <<>>
    /\ last.pre.eof
    /\ stream.written = <<>>
    /\ stream.flushes = 0
    /\ stream.rpos = 0

====
